---- MODULE Spec2Model ----
(***************************************************************************)
(* The two TLS test servers of cargo-binstall's end-to-end tests.          *)
(*                                                                         *)
(*   e2e-tests/server.py          removes seven artifacts of an earlier    *)
(*                                run, provisions a CA and a leaf          *)
(*                                certificate with three openssl commands, *)
(*                                then serves the directory over TLS.      *)
(*   e2e-tests/signing/server.py  serves its own directory over TLS with   *)
(*                                the pair found in $CERT_DIR.             *)
(*                                                                         *)
(* The scratch directory is a function from file names to contents.  A     *)
(* key generated by openssl is a fresh value: the key of the CA step of    *)
(* run r is 2r, the key of the CSR step of run r is 2r+1, and a serial     *)
(* openssl draws at random in run r is <<r, 0>>.  Everything the           *)
(* environment decides (whether os.remove raises, whether an openssl       *)
(* command fails and how far it got, whether the port is free) is a        *)
(* nondeterministic choice of the action.                                  *)
(***************************************************************************)
EXTENDS Integers, Sequences, FiniteSets, TLC

\* ------------------------------------------------------------------ bounds
MaxRuns == 2
MaxRequests == 1

\* --------------------------------------------------------------- constants
Files == {"ca.pem", "ca.srl", "ca.key", "server.csr", "server.ext", "server.pem", "server.key"}

\* server.py:11-17, the order of the remove_file calls
CleanupOrder == <<"ca.pem", "ca.srl", "ca.key", "server.csr", "server.ext", "server.pem", "server.key">>

\* the script with the two key generations exchanged
Script_csr_first ==
  [k \in 1..Len(CleanupOrder) |-> [op |-> "remove_file", arg |-> CleanupOrder[k]]]
  \o << [op |-> "gen_csr",         arg |-> "server.csr"],
        [op |-> "gen_ca",          arg |-> "ca.pem"],
        [op |-> "write_ext",       arg |-> "server.ext"],
        [op |-> "sign",            arg |-> "server.pem"],
        [op |-> "HTTPServer",      arg |-> ""],
        [op |-> "SSLContext",      arg |-> ""],
        [op |-> "load_cert_chain", arg |-> "server.pem"],
        [op |-> "wrap_socket",     arg |-> ""],
        [op |-> "serve_forever",   arg |-> ""] >>

\* server.py:11-36, the statements of the script in program order
Script ==
  [k \in 1..Len(CleanupOrder) |-> [op |-> "remove_file", arg |-> CleanupOrder[k]]]
  \o << [op |-> "gen_ca",          arg |-> "ca.pem"],
        [op |-> "gen_csr",         arg |-> "server.csr"],
        [op |-> "write_ext",       arg |-> "server.ext"],
        [op |-> "sign",            arg |-> "server.pem"],
        [op |-> "HTTPServer",      arg |-> ""],
        [op |-> "SSLContext",      arg |-> ""],
        [op |-> "load_cert_chain", arg |-> "server.pem"],
        [op |-> "wrap_socket",     arg |-> ""],
        [op |-> "serve_forever",   arg |-> ""] >>

\* the index of the statement `op` (of remove_file: its first call)
Pos(op) == CHOOSE k \in 1..Len(Script) : Script[k].op = op /\ \A j \in 1..(k-1) : Script[j].op # op

\* server.py:18 -subj "/C=UT/CN=ca.localhost", server.py:19 -subj "/C=UT/CN=localhost"
CASubject == "/C=UT/CN=ca.localhost"
ServerSubject == "/C=UT/CN=localhost"

\* server.py:21-28, the text written to server.ext, as openssl's configuration
\* reader sees it: a section header, or key = value with the key split at "."
\* and the value split at "," (a leading "@" names a section)
ExtFileText ==
  << [kind |-> "kv", key |-> <<"authorityKeyIdentifier">>, val |-> <<"keyid", "issuer">>],
     [kind |-> "kv", key |-> <<"basicConstraints">>, val |-> <<"CA:FALSE">>],
     [kind |-> "kv", key |-> <<"keyUsage">>,
      val |-> <<"digitalSignature", "nonRepudiation", "keyEncipherment", "dataEncipherment">>],
     [kind |-> "kv", key |-> <<"subjectAltName">>, val |-> <<"@", "alt_names">>],
     [kind |-> "section", key |-> <<"alt_names">>, val |-> <<>>],
     [kind |-> "kv", key |-> <<"DNS", "1">>, val |-> <<"localhost">>] >>

\* server.py:15, a server.ext left by an earlier provisioning that named no host
OldExtFileText ==
  << [kind |-> "kv", key |-> <<"basicConstraints">>, val |-> <<"CA:TRUE">>],
     [kind |-> "kv", key |-> <<"subjectAltName">>, val |-> <<"@", "alt_names">>],
     [kind |-> "section", key |-> <<"alt_names">>, val |-> <<>>] >>

\* ------------------------------------------------------------ file contents
NoKey == 0 - 1
NoSerial == <<NoKey, NoKey>>
NoExt == [bc |-> "", ku |-> {}, san |-> <<>>]

\* what a path of the scratch directory holds; `run` is the run that wrote it
Absent ==
  [present |-> FALSE, run |-> 0, key |-> NoKey, subject |-> "", issuer |-> "",
   caKey |-> NoKey, signer |-> NoKey, serial |-> NoSerial, ext |-> NoExt,
   extRun |-> 0, text |-> <<>>]

\* the fresh keys of run r (openssl -newkey rsa:4096, server.py:18 and :19)
CAKeyOf(r) == 2 * r
ServerKeyOf(r) == 2 * r + 1

KeyFile(r, k) == [Absent EXCEPT !.present = TRUE, !.run = r, !.key = k]

\* server.py:18, openssl req -x509: a self-signed certificate (an x509 made by
\* req is a CA certificate by openssl's default v3_ca extensions)
SelfSignedCert(r, k, subj) ==
  [Absent EXCEPT !.present = TRUE, !.run = r, !.key = k, !.subject = subj,
                 !.issuer = subj, !.caKey = k, !.signer = k,
                 !.ext = [bc |-> "CA:TRUE", ku |-> {}, san |-> <<>>]]

\* server.py:19, openssl req -new: a request for key k, signed with k
CsrFile(r, k, subj) ==
  [Absent EXCEPT !.present = TRUE, !.run = r, !.key = k, !.subject = subj, !.signer = k]

SerialFile(r, s) == [Absent EXCEPT !.present = TRUE, !.run = r, !.serial = s]

\* server.py:20-28, what open('server.ext', 'w') and file.write leave
TextFile(r, t) == [Absent EXCEPT !.present = TRUE, !.run = r, !.text = t]

\* ----------------------------------------------- openssl's reading of -extfile
\* the section a line belongs to: the last header before it, or "" (default)
RECURSIVE SectionAt(_, _)
SectionAt(text, n) ==
  IF n = 0 THEN ""
  ELSE IF text[n].kind = "section" THEN text[n].key[1]
  ELSE SectionAt(text, n - 1)

\* the lines key = value of section `sect`, in file order
SectionLines(text, sect) ==
  SelectSeq([n \in 1..Len(text) |-> [line |-> text[n], sect |-> SectionAt(text, n)]],
            LAMBDA e : e.line.kind = "kv" /\ e.sect = sect)

\* the value of `key` in the default section, <<>> when it is not set
DefaultValue(text, key) ==
  LET hits == SelectSeq(SectionLines(text, ""), LAMBDA e : e.line.key = <<key>>)
  IN  IF hits = <<>> THEN <<>> ELSE hits[Len(hits)].line.val

\* subjectAltName = @sect: one general name per line of the section, its type
\* the key up to the ".", its value the line's value
GeneralNames(text, val) ==
  IF Len(val) = 2 /\ val[1] = "@"
    THEN LET ls == SectionLines(text, val[2])
         IN  [n \in 1..Len(ls) |-> <<ls[n].line.key[1], ls[n].line.val[1]>>]
    ELSE <<>>

RangeOf(s) == {s[n] : n \in 1..Len(s)}

\* server.py:29 -extfile server.ext: the extensions of the default section
ParseExt(text) ==
  [bc  |-> LET v == DefaultValue(text, "basicConstraints") IN IF v = <<>> THEN "" ELSE v[1],
   ku  |-> RangeOf(DefaultValue(text, "keyUsage")),
   san |-> GeneralNames(text, DefaultValue(text, "subjectAltName"))]

\* the extensions the leaf certificate is to carry
LeafExt ==
  [bc |-> "CA:FALSE",
   ku |-> {"digitalSignature", "nonRepudiation", "keyEncipherment", "dataEncipherment"},
   san |-> << <<"DNS", "localhost">> >>]

\* ------------------------------------------------------ the openssl commands
\* what a command leaves in the directory and its exit status
Result(files, code) == [fs |-> files, rc |-> code]

\* server.py:18, openssl req -newkey rsa:4096 -x509 ... -out ca.pem -keyout ca.key
\* `out` is how far the command got: the key is written before the certificate,
\* and an existing file is overwritten
GenCA(files, r, out) ==
  LET k == CAKeyOf(r)
      withKey == [files EXCEPT !["ca.key"] = KeyFile(r, k)]
  IN  CASE out = "ok"       -> Result([withKey EXCEPT !["ca.pem"] = SelfSignedCert(r, k, CASubject)], 0)
        [] out = "key_only" -> Result(withKey, 1)
        [] OTHER            -> Result(files, 1)

\* server.py:19, openssl req -new -newkey rsa:4096 ... -out server.csr -keyout server.key
GenCSR(files, r, out) ==
  LET k == ServerKeyOf(r)
      withKey == [files EXCEPT !["server.key"] = KeyFile(r, k)]
  IN  CASE out = "ok"       -> Result([withKey EXCEPT !["server.csr"] = CsrFile(r, k, ServerSubject)], 0)
        [] out = "key_only" -> Result(withKey, 1)
        [] OTHER            -> Result(files, 1)

\* server.py:29 -CAcreateserial: the serial of ca.srl plus one, or, with no
\* ca.srl, a serial drawn at random
NextSerial(files, r) ==
  IF files["ca.srl"].present
    THEN <<files["ca.srl"].serial[1], files["ca.srl"].serial[2] + 1>>
    ELSE <<r, 0>>

\* server.py:29: the command can sign when all four inputs are there, the
\* request is signed by its own key and ca.key is the key of ca.pem
CanSign(files) ==
  /\ \A f \in {"server.csr", "ca.pem", "ca.key", "server.ext"} : files[f].present
  /\ files["server.csr"].signer = files["server.csr"].key
  /\ files["ca.pem"].key = files["ca.key"].key

\* the certificate the command issues
LeafCert(files, r) ==
  [Absent EXCEPT !.present = TRUE, !.run = r,
                 !.key     = files["server.csr"].key,
                 !.subject = files["server.csr"].subject,
                 !.issuer  = files["ca.pem"].subject,
                 !.caKey   = files["ca.pem"].key,
                 !.signer  = files["ca.key"].key,
                 !.serial  = NextSerial(files, r),
                 !.ext     = ParseExt(files["server.ext"].text),
                 !.extRun  = files["server.ext"].run]

\* server.py:29, openssl x509 -req -in server.csr -CA ca.pem -CAkey ca.key
\*   -CAcreateserial -out server.pem -days 1 -sha256 -extfile server.ext
\* the serial file is saved before the certificate is written; a subjectAltName
\* with no name is refused by some builds and issued by others (`lax`)
SignCSR(files, r, out, lax) ==
  LET withSrl == [files EXCEPT !["ca.srl"] = SerialFile(r, NextSerial(files, r))]
      leaf == LeafCert(files, r)
  IN  IF ~CanSign(files) THEN Result(files, 1)
      ELSE IF leaf.ext.san = <<>> /\ ~lax THEN Result(withSrl, 1)
      ELSE CASE out = "ok"          -> Result([withSrl EXCEPT !["server.pem"] = leaf], 0)
             [] out = "serial_only" -> Result(withSrl, 1)
             [] OTHER               -> Result(files, 1)

\* server.py:34, ctx.load_cert_chain(certfile, keyfile): raises unless both
\* files can be read and the key is the certificate's
CanLoad(cert, key) == cert.present /\ key.present /\ cert.key # NoKey /\ cert.key = key.key

\* ------------------------------------------------------------------- state
VARIABLES
  fs,        \* server.py: the scratch directory, file name -> contents
  pc,        \* server.py: index in Script of the statement to execute next
  status,    \* server.py: "running", or "exited" after an uncaught exception
  run,       \* which invocation of server.py this is (1, 2, ...)
  faults,    \* whether the environment of this run may fail an operation
  trace,     \* the statements this run has executed, by index in Script
  rc,        \* the value each os.system call of this run returned (-1: not called)
  caught,    \* the exceptions the remove_file calls of this run swallowed
  httpd,     \* the server socket: NoSocket, or bound to server_address, plain or TLS
  ctx,       \* the pair load_cert_chain loaded into the SSLContext
  requests,  \* requests serve_forever has handled
  prevCtx,   \* the pair the run before this one loaded (NoCtx: it loaded none)
  s_environ, \* signing/server.py: whether CERT_DIR is in os.environ
  s_dirname, \* signing/server.py: whether os.path.dirname(__file__) names a directory
  certdir,   \* signing/server.py: the directory $CERT_DIR, file name -> contents
  s_pc,      \* signing/server.py: index in SigningScript of the next statement
  s_status,  \* signing/server.py: "running" or "exited"
  s_reads,   \* signing/server.py: the files of $CERT_DIR it has opened
  s_httpd,   \* signing/server.py: the server socket
  s_ctx,     \* signing/server.py: the pair loaded into the SSLContext
  s_requests \* signing/server.py: requests handled

mainVars == <<fs, pc, status, run, faults, trace, rc, caught, httpd, ctx, requests, prevCtx>>
signVars == <<s_environ, s_dirname, certdir, s_pc, s_status, s_reads, s_httpd, s_ctx, s_requests>>
vars == <<mainVars, signVars>>

Commands == {"gen_ca", "gen_csr", "sign"}
NotCalled == 0 - 1
NoCtx == [cert |-> Absent, key |-> Absent]

\* server.py:31 and signing/server.py:10, server_address = ('', 4443)
server_address == <<"", 4443>>
NoSocket == [state |-> "none", addr |-> <<"", 0>>]
\* a socket bound to server_address, plain ("bound") or wrapped ("tls")
Socket(state) == [state |-> state, addr |-> server_address]

Op == Script[pc].op
Running(op) == status = "running" /\ Op = op

\* what an earlier run of server.py (run 0) may have left under each name
Stale(f, text) ==
  CASE f = "ca.key"     -> KeyFile(0, CAKeyOf(0))
    [] f = "ca.pem"     -> SelfSignedCert(0, CAKeyOf(0), CASubject)
    [] f = "ca.srl"     -> SerialFile(0, <<0, 0>>)
    [] f = "server.key" -> KeyFile(0, ServerKeyOf(0))
    [] f = "server.csr" -> CsrFile(0, ServerKeyOf(0), ServerSubject)
    [] f = "server.ext" -> TextFile(0, text)
    [] OTHER            -> [Absent EXCEPT !.present = TRUE, !.key = ServerKeyOf(0),
                                          !.subject = ServerSubject, !.issuer = CASubject,
                                          !.caKey = CAKeyOf(0), !.signer = CAKeyOf(0),
                                          !.serial = <<0, 0>>, !.ext = ParseExt(text)]

\* a process of server.py at its first statement, in directory `files`
Started(files, r) ==
  /\ fs = files /\ run = r /\ faults \in BOOLEAN
  /\ pc = 1 /\ status = "running" /\ trace = <<>>
  /\ rc = [c \in Commands |-> NotCalled] /\ caught = {}
  /\ httpd = NoSocket /\ ctx = NoCtx /\ requests = 0

\* what the environment may do to an operation of this run: anything in
\* `all`, or, in a run without faults, only let it succeed
Env(all, good) == IF faults THEN all ELSE {good}

SigningIdle ==
  /\ s_environ = FALSE /\ s_dirname = FALSE /\ certdir = [f \in {} |-> Absent]
  /\ s_pc = 0 /\ s_status = "exited" /\ s_reads = {} /\ s_httpd = NoSocket
  /\ s_ctx = NoCtx /\ s_requests = 0

\* server.py is started in a scratch directory holding any subset of the seven
\* artifacts of an earlier run
Init ==
  /\ \E present \in SUBSET Files, text \in {ExtFileText, OldExtFileText} :
       Started([f \in Files |-> IF f \in present THEN Stale(f, text) ELSE Absent], 1)
  /\ prevCtx = NoCtx
  /\ SigningIdle

\* the statement at pc ran to its end
Advance == pc' = pc + 1 /\ trace' = Append(trace, pc) /\ status' = "running"

\* the statement at pc raised: nothing catches it, the interpreter exits and
\* the kernel closes the socket
Raise == pc' = pc /\ trace' = Append(trace, pc) /\ status' = "exited" /\ httpd' = NoSocket

\* remove_file without its try/except: os.remove's exception leaves the script
remove_file_uncaught(path, denied) ==
  IF fs[path].present /\ ~denied
    THEN fs' = [fs EXCEPT ![path] = Absent] /\ caught' = caught /\ Advance
    ELSE fs' = fs /\ caught' = caught /\ Raise

\* server.py:5-9 and :11-17, remove_file(path): os.remove, any exception swallowed
remove_file(path, denied) ==
  /\ IF ~fs[path].present
       THEN fs' = fs /\ caught' = caught \cup {"FileNotFoundError"}
       ELSE IF denied
         THEN fs' = fs /\ caught' = caught \cup {"PermissionError"}
         ELSE fs' = [fs EXCEPT ![path] = Absent] /\ caught' = caught
  /\ Advance

RemoveFile ==
  /\ Running("remove_file")
  /\ \E denied \in Env(BOOLEAN, FALSE) : remove_file(Script[pc].arg, denied)
  /\ UNCHANGED <<run, faults, rc, httpd, ctx, requests, prevCtx, signVars>>

\* a CA step that keeps a CA pair it finds instead of making a new one
SystemGenCA_keep_existing ==
  /\ Running("gen_ca")
  /\ \E out \in Env({"ok", "key_only", "none"}, "ok") :
       LET res == IF fs["ca.pem"].present /\ fs["ca.key"].present
                    THEN Result(fs, 0) ELSE GenCA(fs, run, out)
       IN  fs' = res.fs /\ rc' = [rc EXCEPT !["gen_ca"] = res.rc]
  /\ Advance
  /\ UNCHANGED <<caught, run, faults, httpd, ctx, requests, prevCtx, signVars>>

\* server.py:18, os.system(...): the exit status is not looked at
SystemGenCA ==
  /\ Running("gen_ca")
  /\ \E out \in Env({"ok", "key_only", "none"}, "ok") :
       LET res == GenCA(fs, run, out)
       IN  fs' = res.fs /\ rc' = [rc EXCEPT !["gen_ca"] = res.rc]
  /\ Advance
  /\ UNCHANGED <<caught, run, faults, httpd, ctx, requests, prevCtx, signVars>>

\* server.py:19
SystemGenCSR ==
  /\ Running("gen_csr")
  /\ \E out \in Env({"ok", "key_only", "none"}, "ok") :
       LET res == GenCSR(fs, run, out)
       IN  fs' = res.fs /\ rc' = [rc EXCEPT !["gen_csr"] = res.rc]
  /\ Advance
  /\ UNCHANGED <<caught, run, faults, httpd, ctx, requests, prevCtx, signVars>>

\* a write of server.ext whose failure is swallowed like remove_file's
write_ext_unchecked(out) ==
  /\ fs' = IF out = "ok" THEN [fs EXCEPT !["server.ext"] = TextFile(run, ExtFileText)] ELSE fs
  /\ Advance /\ httpd' = httpd

\* server.py:20-28, with open('server.ext', 'w') as file: file.write(...)
\* open truncates or creates the file; open or write may raise
write_ext(out) ==
  CASE out = "ok" ->
         fs' = [fs EXCEPT !["server.ext"] = TextFile(run, ExtFileText)] /\ Advance /\ httpd' = httpd
    [] out = "write_raises" ->
         fs' = [fs EXCEPT !["server.ext"] = TextFile(run, <<>>)] /\ Raise
    [] OTHER ->
         fs' = fs /\ Raise

WriteExt ==
  /\ Running("write_ext")
  /\ \E out \in Env({"ok", "write_raises", "open_raises"}, "ok") : write_ext(out)
  /\ UNCHANGED <<caught, run, faults, rc, ctx, requests, prevCtx, signVars>>

\* a signing step that deletes the request and the extension file it consumed
SystemSign_discard_csr ==
  /\ Running("sign")
  /\ \E out \in Env({"ok", "serial_only", "none"}, "ok"), lax \in BOOLEAN :
       LET res == SignCSR(fs, run, out, lax)
       IN  /\ fs' = [res.fs EXCEPT !["server.csr"] = Absent, !["server.ext"] = Absent]
           /\ rc' = [rc EXCEPT !["sign"] = res.rc]
  /\ Advance
  /\ UNCHANGED <<caught, run, faults, httpd, ctx, requests, prevCtx, signVars>>

\* server.py:29
SystemSign ==
  /\ Running("sign")
  /\ \E out \in Env({"ok", "serial_only", "none"}, "ok"), lax \in BOOLEAN :
       LET res == SignCSR(fs, run, out, lax)
       IN  fs' = res.fs /\ rc' = [rc EXCEPT !["sign"] = res.rc]
  /\ Advance
  /\ UNCHANGED <<caught, run, faults, httpd, ctx, requests, prevCtx, signVars>>

\* server.py:31-32, HTTPServer(server_address, ...): creates, binds and listens
\* on the socket; raises when port 4443 is taken
NewHTTPServer ==
  /\ Running("HTTPServer")
  /\ \E free \in Env(BOOLEAN, TRUE) :
       IF free THEN httpd' = Socket("bound") /\ Advance ELSE Raise
  /\ UNCHANGED <<caught, fs, run, faults, rc, ctx, requests, prevCtx, signVars>>

\* server.py:33, ssl.SSLContext(protocol=ssl.PROTOCOL_TLS_SERVER)
NewSSLContext ==
  /\ Running("SSLContext")
  /\ Advance
  /\ UNCHANGED <<caught, fs, run, faults, rc, httpd, ctx, requests, prevCtx, signVars>>

\* server.py:34, ctx.load_cert_chain(certfile="server.pem", keyfile="server.key")
load_cert_chain(cert, key, readable) ==
  IF readable /\ CanLoad(cert, key)
    THEN ctx' = [cert |-> cert, key |-> key] /\ Advance /\ httpd' = httpd
    ELSE ctx' = ctx /\ Raise

LoadCertChain ==
  /\ Running("load_cert_chain")
  /\ \E readable \in Env(BOOLEAN, TRUE) : load_cert_chain(fs["server.pem"], fs["server.key"], readable)
  /\ UNCHANGED <<caught, fs, run, faults, rc, requests, prevCtx, signVars>>

\* server.py:35, httpd.socket = ctx.wrap_socket(httpd.socket, server_side=True)
WrapSocket ==
  /\ Running("wrap_socket")
  /\ httpd' = Socket("tls")
  /\ Advance
  /\ UNCHANGED <<caught, fs, run, faults, rc, ctx, requests, prevCtx, signVars>>

\* server.py:36, httpd.serve_forever(): handles one request after the other
\* and does not return; SimpleHTTPRequestHandler only reads files
ServeForever ==
  /\ Running("serve_forever")
  /\ requests < MaxRequests
  /\ requests' = requests + 1
  /\ UNCHANGED <<fs, pc, status, run, faults, trace, rc, caught, httpd, ctx, prevCtx, signVars>>

\* the test harness ends a serving process, or finds it exited, and starts
\* server.py again in the same directory
Restart ==
  /\ status = "exited" \/ Op = "serve_forever"
  /\ run < MaxRuns
  /\ fs' = fs /\ run' = run + 1 /\ faults' \in BOOLEAN
  /\ pc' = 1 /\ status' = "running" /\ trace' = <<>>
  /\ rc' = [c \in Commands |-> NotCalled] /\ caught' = {}
  /\ httpd' = NoSocket /\ ctx' = NoCtx /\ requests' = 0
  /\ prevCtx' = ctx
  /\ UNCHANGED signVars

Next ==
  \/ RemoveFile
  \/ SystemGenCA
  \/ SystemGenCSR
  \/ WriteExt
  \/ SystemSign
  \/ NewHTTPServer
  \/ NewSSLContext
  \/ LoadCertChain
  \/ WrapSocket
  \/ ServeForever
  \/ Restart

Spec == Init /\ [][Next]_vars

\* ------------------------------------------------ e2e-tests/signing/server.py
\* signing/server.py:6-15, the statements of the script in program order
SigningScript ==
  << "environ", "chdir", "HTTPServer", "SSLContext", "load_cert_chain",
     "wrap_socket", "serve_forever" >>

CertDirFiles == {"server.pem", "server.key", "ca.pem"}

S_Op == SigningScript[s_pc]
S_Running(op) == s_status = "running" /\ S_Op = op

MainIdle ==
  /\ fs = [f \in Files |-> Absent] /\ run = 1 /\ faults = FALSE
  /\ pc = 1 /\ status = "exited" /\ trace = <<>>
  /\ rc = [c \in Commands |-> NotCalled] /\ caught = {}
  /\ httpd = NoSocket /\ ctx = NoCtx /\ requests = 0 /\ prevCtx = NoCtx

\* what the test that starts signing/server.py may have put in $CERT_DIR:
\* a leaf certificate and a key (of the same pair or not) and the CA certificate
InitSigning ==
  /\ MainIdle
  /\ s_environ \in BOOLEAN /\ s_dirname \in BOOLEAN
  /\ \E cert \in {Absent, Stale("server.pem", ExtFileText),
                  [Stale("server.pem", ExtFileText) EXCEPT !.key = ServerKeyOf(1)]},
        key \in {Absent, KeyFile(0, ServerKeyOf(0)), KeyFile(0, ServerKeyOf(1))},
        ca \in {Absent, Stale("ca.pem", ExtFileText)} :
       certdir = [f \in CertDirFiles |->
                    CASE f = "server.pem" -> cert [] f = "server.key" -> key [] OTHER -> ca]
  /\ s_pc = 1 /\ s_status = "running" /\ s_reads = {} /\ s_httpd = NoSocket
  /\ s_ctx = NoCtx /\ s_requests = 0

S_Advance == s_pc' = s_pc + 1 /\ s_status' = "running"
S_Raise == s_pc' = s_pc /\ s_status' = "exited" /\ s_httpd' = NoSocket

\* os.environ.get("CERT_DIR", "."): no KeyError when CERT_DIR is unset
s_environ_default == S_Advance /\ s_httpd' = s_httpd

\* signing/server.py:6, cert_dir = Path(os.environ["CERT_DIR"]): KeyError when unset
s_environ_lookup ==
  IF s_environ THEN S_Advance /\ s_httpd' = s_httpd ELSE S_Raise

S_Environ ==
  /\ S_Running("environ")
  /\ s_environ_lookup
  /\ UNCHANGED <<mainVars, s_environ, s_dirname, certdir, s_reads, s_ctx, s_requests>>

\* signing/server.py:8, os.chdir(os.path.dirname(__file__)): raises when the
\* script was started by a bare file name (dirname is '')
S_Chdir ==
  /\ S_Running("chdir")
  /\ IF s_dirname THEN S_Advance /\ s_httpd' = s_httpd ELSE S_Raise
  /\ UNCHANGED <<mainVars, s_environ, s_dirname, certdir, s_reads, s_ctx, s_requests>>

\* signing/server.py:10-11, HTTPServer(('', 4443), SimpleHTTPRequestHandler)
S_NewHTTPServer ==
  /\ S_Running("HTTPServer")
  /\ \E free \in BOOLEAN :
       IF free THEN s_httpd' = Socket("bound") /\ S_Advance ELSE S_Raise
  /\ UNCHANGED <<mainVars, s_environ, s_dirname, certdir, s_reads, s_ctx, s_requests>>

\* signing/server.py:12
S_NewSSLContext ==
  /\ S_Running("SSLContext")
  /\ S_Advance
  /\ UNCHANGED <<mainVars, s_environ, s_dirname, certdir, s_reads, s_httpd, s_ctx, s_requests>>

\* signing/server.py:13, ctx.load_cert_chain(certfile=cert_dir / "server.pem",
\* keyfile=cert_dir / "server.key"): the certificate is read first, the key
\* only when the certificate was loaded
s_load_cert_chain(readable) ==
  LET cert == certdir["server.pem"]
      key == certdir["server.key"]
  IN  /\ certdir' = certdir
      /\ s_reads' = s_reads \cup {"server.pem"}
                            \cup (IF readable /\ cert.present THEN {"server.key"} ELSE {})
      /\ IF readable /\ CanLoad(cert, key)
           THEN s_ctx' = [cert |-> cert, key |-> key] /\ S_Advance /\ s_httpd' = s_httpd
           ELSE s_ctx' = s_ctx /\ S_Raise

S_LoadCertChain ==
  /\ S_Running("load_cert_chain")
  /\ \E readable \in BOOLEAN : s_load_cert_chain(readable)
  /\ UNCHANGED <<mainVars, s_environ, s_dirname, s_requests>>

\* signing/server.py:14
S_WrapSocket ==
  /\ S_Running("wrap_socket")
  /\ s_httpd' = Socket("tls")
  /\ S_Advance
  /\ UNCHANGED <<mainVars, s_environ, s_dirname, certdir, s_reads, s_ctx, s_requests>>

\* signing/server.py:15, httpd.serve_forever(): SimpleHTTPRequestHandler
\* answers GET and HEAD from the script's own directory and writes nothing
S_ServeForever ==
  /\ S_Running("serve_forever")
  /\ s_requests < MaxRequests
  /\ s_requests' = s_requests + 1
  /\ UNCHANGED <<mainVars, s_environ, s_dirname, certdir, s_pc, s_status, s_reads, s_httpd, s_ctx>>

NextSigning ==
  \/ S_Environ
  \/ S_Chdir
  \/ S_NewHTTPServer
  \/ S_NewSSLContext
  \/ S_LoadCertChain
  \/ S_WrapSocket
  \/ S_ServeForever

SpecSigning == InitSigning /\ [][NextSigning]_vars

\* ================================================================== claims
Serving == status = "running" /\ Op = "serve_forever"
OpAt(n) == Script[trace[n]]
Executed(op) == \E n \in 1..Len(trace) : OpAt(n).op = op
Failed(c) == rc[c] = 1
AllSucceeded == \A c \in Commands : rc[c] = 0

\* C1 (as claimed): a provisioning command that fails makes the run exit at
\* that statement; no later statement runs and no server socket is created.
C1_FailureAborts ==
  \A c \in Commands :
    Failed(c) => /\ status = "exited" /\ pc = Pos(c)
                 /\ ~Executed("HTTPServer") /\ httpd = NoSocket

\* C2 (as claimed): whenever the run serves, the certificate and the key it
\* loaded were both written by this run.
C2_NoStaleServed ==
  Serving => ctx.cert.run = run /\ ctx.key.run = run

\* C3 (as claimed): a run in which os.remove failed on a file that exists
\* does not go on to generate or serve.
C3_RemoveFailureSurfaced ==
  "PermissionError" \in caught => ~Executed("gen_ca") /\ ~Serving

\* C4: a remove_file call never raises and never creates a file: every call
\* of the cleanup returns, the next statement is the next call or, after the
\* seventh, the CA generation, and a file that is absent stays absent.
C4_MissingFileIgnored ==
  [][ (status = "running" /\ Op = "remove_file") =>
        /\ status' = "running" /\ pc' = pc + 1
        /\ Script[pc'].op = IF pc < Len(CleanupOrder) THEN "remove_file" ELSE "gen_ca"
        /\ \A f \in Files : ~fs[f].present => ~fs'[f].present ]_vars

\* C4 witness: a cleanup that met a missing file at every call has reached the CA generation, the directory still empty.
C4_Witness ==
  /\ status = "running" /\ Op = "gen_ca" /\ Len(trace) = Len(CleanupOrder)
  /\ caught = {"FileNotFoundError"}
  /\ \A f \in Files : ~fs[f].present

\* C5: a second (or later) run whose environment fails no operation never
\* exits with an error and no command of it fails, whatever the run before
\* left; once it has signed, the CA pair, the server pair and the serial are
\* new (the serial freshly drawn, ca.srl having been removed); and in any
\* later run whose three commands succeeded, the pair it serves has another
\* server key, another CA key and another serial than the pair the run before
\* loaded.
C5_SecondRunFresh ==
  /\ (run >= 2 /\ ~faults) =>
       /\ status = "running"
       /\ \A c \in Commands : ~Failed(c)
       /\ pc > Pos("sign") =>
            /\ \A f \in Files : fs[f].present /\ fs[f].run = run
            /\ fs["ca.key"].key = CAKeyOf(run) /\ fs["ca.pem"].key = CAKeyOf(run)
            /\ fs["server.key"].key = ServerKeyOf(run) /\ fs["server.pem"].key = ServerKeyOf(run)
            /\ fs["server.pem"].signer = CAKeyOf(run)
            /\ fs["server.pem"].serial = <<run, 0>>
  /\ (run >= 2 /\ Serving /\ AllSucceeded) =>
       /\ ctx = [cert |-> fs["server.pem"], key |-> fs["server.key"]]
       /\ prevCtx.cert.present =>
            /\ ctx.key.key # prevCtx.key.key
            /\ ctx.cert.key # prevCtx.cert.key
            /\ ctx.cert.signer # prevCtx.cert.signer
            /\ ctx.cert.serial # prevCtx.cert.serial

\* C5 witness: a second run without faults is serving after a first run that loaded a pair of its own.
C5_Witness ==
  /\ run = 2 /\ ~faults /\ Serving /\ requests > 0
  /\ prevCtx.cert.present /\ prevCtx.cert.run = 1 /\ prevCtx.key.run = 1

\* C6 (as claimed): while the server is serving, neither server.csr nor
\* server.ext is in the scratch directory.
C6_CsrDiscarded ==
  Serving => ~fs["server.csr"].present /\ ~fs["server.ext"].present

\* C6 (amended): nothing discards the request after signing: once the signing
\* command of a run has succeeded, server.csr and the server.ext this run wrote
\* stay in the scratch directory for the rest of the run, also while serving.
C6_CsrKept ==
  rc["sign"] = 0 =>
    /\ fs["server.csr"].present
    /\ fs["server.ext"] = TextFile(run, ExtFileText)

\* C6 witness: a run whose signing succeeded is serving requests with its own server.csr still in the directory.
C6_Witness ==
  Serving /\ requests > 0 /\ rc["sign"] = 0 /\ fs["server.csr"].run = run

\* C7 (as claimed): a server.pem the signing step of this run wrote is issued
\* by the ca.pem and signed with the ca.key of the directory, and that pair is
\* the one the CA step of this run generated.
C7_SameRunCA ==
  (fs["server.pem"].present /\ fs["server.pem"].run = run /\ run >= 1 /\ rc["sign"] = 0) =>
    /\ fs["server.pem"].issuer = fs["ca.pem"].subject
    /\ fs["server.pem"].caKey = fs["ca.pem"].key
    /\ fs["server.pem"].signer = fs["ca.key"].key
    /\ fs["ca.pem"].subject = CASubject
    /\ fs["ca.pem"].run = run /\ fs["ca.key"].run = run
    /\ fs["ca.key"].key = CAKeyOf(run)

\* C8: from the signing statement on, server.ext is the text this run wrote
\* (the signing step never sees a stale or empty extension file), and every
\* certificate a signing step issued carries CA:FALSE, the four key usages
\* and the one subjectAltName DNS:localhost, read from the extension file of
\* its own run.
C8_LeafExtensions ==
  /\ pc >= Pos("sign") => fs["server.ext"] = TextFile(run, ExtFileText)
  /\ (fs["server.pem"].present /\ fs["server.pem"].run >= 1) =>
       /\ fs["server.pem"].ext = LeafExt
       /\ fs["server.pem"].extRun = fs["server.pem"].run

\* C8 witness: a second run has issued a certificate although a removal was refused.
C8_Witness ==
  /\ run = 2 /\ rc["sign"] = 0 /\ fs["server.pem"].run = 2
  /\ "PermissionError" \in caught

\* the statements executed so far respect the order of the script
C9_OrderInv ==
  /\ \A m, n \in 1..Len(trace) : m # n => trace[m] # trace[n]
  /\ \A n \in 1..Len(trace) :
       /\ OpAt(n).op # "remove_file" =>
            \A f \in Files : \E m \in 1..(n-1) : OpAt(m) = [op |-> "remove_file", arg |-> f]
       /\ OpAt(n).op \in {"gen_csr", "sign"} => \E m \in 1..(n-1) : OpAt(m).op = "gen_ca"
       /\ OpAt(n).op = "sign" => \E m \in 1..(n-1) : OpAt(m).op = "gen_csr"
       /\ OpAt(n).op = "load_cert_chain" => \E m \in 1..(n-1) : OpAt(m).op = "sign"
  /\ Serving => Executed("load_cert_chain") /\ Executed("wrap_socket")

\* a step of a serving process other than its restart
C9_ServeStable ==
  (Serving /\ run' = run) =>
    /\ Serving' /\ fs' = fs /\ trace' = trace /\ rc' = rc /\ httpd' = httpd /\ ctx' = ctx

\* C9: the statements run in program order, each once: every statement other
\* than a removal runs after all seven removals, the CA generation runs
\* before the CSR generation and before the signing, the certificate is
\* loaded only after the signing statement has run; and a serving process
\* stays serving, changing no file and executing no further statement.
C9_FixedOrder == []C9_OrderInv /\ [][C9_ServeStable]_vars

\* C9 witness: a run has executed every statement before serve_forever and is serving requests.
C9_Witness ==
  Serving /\ requests > 0 /\ Len(trace) = Len(Script) - 1

S_Serving == s_status = "running" /\ S_Op = "serve_forever"

\* what signing/server.py has read, and what it has done when it serves
C10_Inv ==
  /\ s_reads \subseteq {"server.pem", "server.key"}
  /\ S_Serving =>
       /\ s_environ
       /\ CanLoad(certdir["server.pem"], certdir["server.key"])
       /\ s_ctx = [cert |-> certdir["server.pem"], key |-> certdir["server.key"]]
       /\ s_httpd = [state |-> "tls", addr |-> <<"", 4443>>]

====
